---- MODULE Spec2Model ----
(***************************************************************************)
(* The undirected graph container of src/graphs/graph.rs: struct Graph     *)
(* with the node table `nodes`, the attribute table `attr_list`, the       *)
(* adjacency table `adj_list` and `name`.                                  *)
(*                                                                         *)
(* Handles are the 0-based positions of the node table, as get_index       *)
(* returns them.  A Vec is a TLA+ sequence; the element at Rust index i is *)
(* s[i + 1].  A HashMap is a function whose DOMAIN is its key set.         *)
(*                                                                         *)
(* A panic unwinds out of the method and leaves the Graph with whatever    *)
(* the method had written before the panicking line: the state a caller    *)
(* that catches the unwind, or a destructor that runs during it, sees.     *)
(* Every call records its arguments in `call`, its outcome in `result` and *)
(* the graph it started from in `pre`.                                     *)
(***************************************************************************)
EXTENDS Integers, Sequences, FiniteSets, TLC

VARIABLES nodes, attr_list, adj_list, name, call, result, pre

vars == <<nodes, attr_list, adj_list, name, call, result, pre>>

\* ------------------------------------------------------------------ bounds

\* Largest node table the callers build.
MaxNodes == 2

\* Longest Vec<Node> handed to add_nodes_multiple.
MaxBatch == 2

\* ------------------------------------------------------------- data model

\* enum Node { Str(String), Int(int) }: a tag and a payload; derived
\* PartialEq compares both.
StrNodes == {<<"Str", "Maths">>, <<"Str", "Physics">>, <<"Str", "Chemistry">>}

IntNodes == {<<"Int", 1>>}

Node == StrNodes \cup IntNodes

\* HashMap::new()
EmptyMap == [k \in {} |-> k]

\* HashMap<String, String>, the attribute maps the callers supply.
AttrMap == {EmptyMap, [k \in {"color"} |-> "red"]}

\* The struct Graph as one value.
Graph(ns, attrs, adj, nm) ==
    [nodes |-> ns, attr_list |-> attrs, adj_list |-> adj, name |-> nm]

\* Graph::new()
new == Graph(<<>>, EmptyMap, EmptyMap, "")

\* HashMap::insert(k, v): the entry under k is created or overwritten.
MapInsert(m, k, v) == [x \in (DOMAIN m) \cup {k} |-> IF x = k THEN v ELSE m[x]]

\* HashMap::remove(&k): no effect when k is not a key.
MapRemove(m, k) == [x \in (DOMAIN m) \ {k} |-> m[x]]

\* ------------------------------------------------------- outcomes of calls

Ok(kind, v) == [kind |-> kind, val |-> v]

Err(e) == [kind |-> "err", val |-> e]

Panic(msg) == [kind |-> "panic", val |-> msg]

\* A method's effect: the graph it leaves and what it hands the caller.
Ret(g, out) == [g |-> g, out |-> out]

\* --------------------------------------------------------------- helpers

\* has_node with an equality that compares the tag only.
has_node_tag_only(g, node) == \E i \in 1..Len(g.nodes) : g.nodes[i][1] = node[1]

\* has_node with a scan that stops one element short.
has_node_short_scan(g, node) == \E i \in 1..(Len(g.nodes) - 1) : g.nodes[i] = node

\* has_node: linear scan of the node table.
has_node(g, node) == \E i \in 1..Len(g.nodes) : g.nodes[i] = node

\* get_index with the count started at 1.
get_index_one_based(g, node) ==
    IF \E i \in 1..Len(g.nodes) : g.nodes[i] = node
    THEN Ok("index",
            CHOOSE i \in 1..Len(g.nodes) :
                /\ g.nodes[i] = node
                /\ \A j \in 1..(i - 1) : g.nodes[j] # node)
    ELSE Panic("Node does not exist.")

\* get_index: position of the first equal node, panic when there is none.
get_index(g, node) ==
    IF \E i \in 1..Len(g.nodes) : g.nodes[i] = node
    THEN Ok("index",
            (CHOOSE i \in 1..Len(g.nodes) :
                /\ g.nodes[i] = node
                /\ \A j \in 1..(i - 1) : g.nodes[j] # node) - 1)
    ELSE Panic("Node does not exist.")

\* existing_node: reference to the first equal node, panic when there is none.
existing_node(g, node) ==
    IF \E i \in 1..Len(g.nodes) : g.nodes[i] = node
    THEN Ok("node", node)
    ELSE Panic("No such node.")

\* last_node: &self.nodes[self.nodes.len()], a bounds-checked Vec index.
last_node(g) ==
    LET i == Len(g.nodes)
    IN  IF i < Len(g.nodes)
        THEN Ok("node", g.nodes[i + 1])
        ELSE Panic("index out of bounds")

\* has_edge: both indices, then adj_list[n1_ind].contains(&n2_ind); the
\* HashMap index panics on a missing key.
has_edge(g, node1, node2) ==
    LET n1 == get_index(g, node1)
        n2 == get_index(g, node2)
    IN  IF n1.kind = "panic" THEN n1
        ELSE IF n2.kind = "panic" THEN n2
        ELSE IF n1.val \notin DOMAIN g.adj_list
             THEN Panic("no entry found for key")
        ELSE Ok("bool", \E k \in 1..Len(g.adj_list[n1.val]) :
                            g.adj_list[n1.val][k] = n2.val)

\* ------------------------------------------------------------ operations

\* add_node: an existing value is returned as it is; a new one is pushed,
\* then last_node is taken, then the two tables get an entry under
\* self.nodes.len().
add_node(g, node) ==
    IF has_node(g, node)
    THEN Ret(g, existing_node(g, node))
    ELSE LET g1 == [g EXCEPT !.nodes = Append(g.nodes, node)]
             node_ref == last_node(g1)
             g2 == [g1 EXCEPT !.adj_list = MapInsert(g1.adj_list, Len(g1.nodes), <<>>)]
             g3 == [g2 EXCEPT !.attr_list = MapInsert(g2.attr_list, Len(g2.nodes), EmptyMap)]
         IN  IF node_ref.kind = "panic"
             THEN Ret(g1, node_ref)
             ELSE Ret(g3, node_ref)

\* add_nodes_multiple: add_node for each value in order; a panic of one
\* add_node ends the loop and the call.
RECURSIVE add_nodes_loop(_, _, _)
add_nodes_loop(g, rest, node_refs) ==
    IF rest = <<>>
    THEN Ret(g, Ok("nodes", node_refs))
    ELSE LET r == add_node(g, Head(rest))
         IN  IF r.out.kind = "panic"
             THEN r
             ELSE add_nodes_loop(r.g, Tail(rest), Append(node_refs, r.out.val))

add_nodes_multiple(g, ns) == add_nodes_loop(g, ns, <<>>)

\* set_node_attr: panic for an absent node, else the map under the node's
\* index is replaced.
set_node_attr(g, node, node_attr) ==
    IF ~has_node(g, node)
    THEN Ret(g, Panic("Node does not exist in graph."))
    ELSE LET index == get_index(g, node)
         IN  IF index.kind = "panic"
             THEN Ret(g, index)
             ELSE Ret([g EXCEPT !.attr_list = MapInsert(g.attr_list, index.val, node_attr)],
                      Ok("unit", ""))

\* The search loops of remove_node: the 0-based position of the first x in
\* vec, vec.len() when the loop runs to its end.
Position(vec, x) ==
    IF \E k \in 1..Len(vec) : vec[k] = x
    THEN (CHOOSE k \in 1..Len(vec) :
            /\ vec[k] = x
            /\ \A j \in 1..(k - 1) : vec[j] # x) - 1
    ELSE Len(vec)

\* Vec::swap_remove(index): None past the end, else the element, its place
\* taken by the last element.
swap_remove(vec, index) ==
    IF index >= Len(vec)
    THEN [some |-> FALSE, vec |-> vec]
    ELSE [some |-> TRUE,
          val  |-> vec[index + 1],
          vec  |-> [k \in 1..(Len(vec) - 1) |->
                        IF k = index + 1 THEN vec[Len(vec)] ELSE vec[k]]]

\* remove_node, first loop: for each neighbor of the removed node, in the
\* order of the cloned list, swap_remove the removed node's index from the
\* neighbor's list.
RECURSIVE unlink_loop(_, _, _)
unlink_loop(adj, conn_nodes, rm_node_index) ==
    IF conn_nodes = <<>>
    THEN [ok |-> TRUE, adj |-> adj]
    ELSE LET conn_node == Head(conn_nodes)
         IN  IF conn_node \notin DOMAIN adj
             THEN [ok |-> FALSE, adj |-> adj, msg |-> "no entry found for key"]
             ELSE LET nodes_vec == adj[conn_node]
                      index == Position(nodes_vec, rm_node_index)
                      adj1 == [adj EXCEPT ![conn_node] = swap_remove(nodes_vec, index).vec]
                  IN  unlink_loop(adj1, Tail(conn_nodes), rm_node_index)

\* remove_node, second loop: for each neighbor of the moved node, overwrite
\* the moved node's old index by the vacated one; the Vec index panics past
\* the end.
RECURSIVE relink_loop(_, _, _, _)
relink_loop(adj, conn_nodes, last_node_index, rm_node_index) ==
    IF conn_nodes = <<>>
    THEN [ok |-> TRUE, adj |-> adj]
    ELSE LET conn_node == Head(conn_nodes)
         IN  IF conn_node \notin DOMAIN adj
             THEN [ok |-> FALSE, adj |-> adj, msg |-> "no entry found for key"]
             ELSE LET nodes_vec == adj[conn_node]
                      index == Position(nodes_vec, last_node_index)
                  IN  IF index >= Len(nodes_vec)
                      THEN [ok |-> FALSE, adj |-> adj, msg |-> "index out of bounds"]
                      ELSE relink_loop(
                               [adj EXCEPT ![conn_node] =
                                    [nodes_vec EXCEPT ![index + 1] = rm_node_index]],
                               Tail(conn_nodes), last_node_index, rm_node_index)

\* remove_node, from the swap_remove of the node table to the end.
remove_node_compact(g, rm_node_index) ==
    LET taken == swap_remove(g.nodes, rm_node_index)
        g1 == [g EXCEPT !.nodes = taken.vec]
        last_node_index == Len(g1.nodes) + 1
    IN  IF ~taken.some
        THEN Ret(g1, Panic("Shouldn't reach here!"))
        ELSE IF last_node_index \notin DOMAIN g1.adj_list
        THEN Ret(g1, Panic("no entry found for key"))
        ELSE LET conn_nodes == g1.adj_list[last_node_index]
                 l2 == relink_loop(g1.adj_list, conn_nodes, last_node_index, rm_node_index)
                 g2 == [g1 EXCEPT !.adj_list = l2.adj]
                 g3 == [g2 EXCEPT !.adj_list =
                            MapInsert(MapRemove(g2.adj_list, last_node_index),
                                      rm_node_index, conn_nodes)]
                 g4 == [g3 EXCEPT !.attr_list = MapRemove(g3.attr_list, rm_node_index)]
             IN  IF ~l2.ok
                 THEN Ret(g2, Panic(l2.msg))
                 ELSE Ret(g4, Ok("node", taken.val))

\* remove_node: NodeNotFound for an absent node; else unlink the node from
\* its neighbors, drop its adjacency entry, swap_remove it from the node
\* table, rewrite the moved node's index, drop the attribute entry.
remove_node(g, node) ==
    IF ~has_node(g, node)
    THEN Ret(g, Err("NodeNotFound"))
    ELSE LET rm == get_index(g, node)
         IN  IF rm.kind = "panic"
             THEN Ret(g, rm)
             ELSE IF rm.val \notin DOMAIN g.adj_list
             THEN Ret(g, Panic("no entry found for key"))
             ELSE LET conn_nodes == g.adj_list[rm.val]
                      l1 == unlink_loop(g.adj_list, conn_nodes, rm.val)
                      g1 == [g EXCEPT !.adj_list = l1.adj]
                      g2 == [g1 EXCEPT !.adj_list = MapRemove(g1.adj_list, rm.val)]
                  IN  IF ~l1.ok
                      THEN Ret(g1, Panic(l1.msg))
                      ELSE remove_node_compact(g2, rm.val)

\* add_edge: nothing when has_edge says the edge is there; else add the
\* absent endpoints, then push each index onto the other's list.
add_edge(g, node1, node2) ==
    LET present == has_edge(g, node1, node2)
        r1 == IF ~has_node(g, node1) THEN add_node(g, node1) ELSE Ret(g, Ok("node", node1))
        r2 == IF ~has_node(r1.g, node2) THEN add_node(r1.g, node2)
              ELSE Ret(r1.g, Ok("node", node2))
        g2 == r2.g
        node1_index == get_index(g2, r1.out.val)
        node2_index == get_index(g2, r2.out.val)
        g3 == [g2 EXCEPT !.adj_list[node1_index.val] = Append(@, node2_index.val)]
        g4 == [g3 EXCEPT !.adj_list[node2_index.val] = Append(@, node1_index.val)]
    IN  IF present.kind = "panic" THEN Ret(g, present)
        ELSE IF present.val THEN Ret(g, Ok("unit", ""))
        ELSE IF r1.out.kind = "panic" THEN r1
        ELSE IF r2.out.kind = "panic" THEN r2
        ELSE IF node1_index.kind = "panic" THEN Ret(g2, node1_index)
        ELSE IF node2_index.kind = "panic" THEN Ret(g2, node2_index)
        ELSE IF node1_index.val \notin DOMAIN g2.adj_list
             THEN Ret(g2, Panic("no entry found for key"))
        ELSE IF node2_index.val \notin DOMAIN g3.adj_list
             THEN Ret(g3, Panic("no entry found for key"))
        ELSE Ret(g4, Ok("unit", ""))

\* edges: the tables' entries in the order the HashMap iterator yields
\* them; a neighbor already visited as a "from" node is skipped.
RECURSIVE edges_loop(_, _, _, _)
edges_loop(adj, order, visited, edge_vec) ==
    IF order = <<>>
    THEN edge_vec
    ELSE LET node == Head(order)
             fresh == SelectSeq(adj[node],
                                LAMBDA nbr : ~\E k \in DOMAIN visited : visited[k] = nbr)
             found == [k \in DOMAIN fresh |-> <<node, fresh[k]>>]
         IN  edges_loop(adj, Tail(order), Append(visited, node), edge_vec \o found)

edges(g, order) == edges_loop(g.adj_list, order, <<>>, <<>>)

\* The orders in which HashMap::iter can yield the keys of a table.
IterOrders(m) ==
    {o \in [1..Cardinality(DOMAIN m) -> DOMAIN m] :
        \A i \in DOMAIN o, j \in DOMAIN o : o[i] = o[j] => i = j}

\* ------------------------------------------------------------------ state

\* The callers build no node table longer than MaxNodes.
Fits(r) == Len(r.g.nodes) <= MaxNodes

\* The graph the variables hold.
Cur == Graph(nodes, attr_list, adj_list, name)

\* One call c of a method with effect r: the graph it leaves, its outcome,
\* the graph before it.
Step(c, r) ==
    /\ nodes' = r.g.nodes
    /\ attr_list' = r.g.attr_list
    /\ adj_list' = r.g.adj_list
    /\ name' = r.g.name
    /\ call' = c
    /\ result' = r.out
    /\ pre' = Cur

Init ==
    /\ nodes = new.nodes
    /\ attr_list = new.attr_list
    /\ adj_list = new.adj_list
    /\ name = new.name
    /\ call = [op |-> "new"]
    /\ result = Ok("unit", "")
    /\ pre = new

\* The Vec<Node> arguments of add_nodes_multiple.
Batches == UNION {[1..n -> Node] : n \in 0..MaxBatch}

AddNode ==
    \E v \in Node :
        /\ Fits(add_node(Cur, v))
        /\ Step([op |-> "add_node", node |-> v],
                add_node(Cur, v))

AddNodesMultiple ==
    \E ns \in Batches :
        /\ Fits(add_nodes_multiple(Cur, ns))
        /\ Step([op |-> "add_nodes_multiple", nodes |-> ns],
                add_nodes_multiple(Cur, ns))

SetNodeAttr ==
    \E v \in Node, m \in AttrMap :
        /\ Fits(set_node_attr(Cur, v, m))
        /\ Step([op |-> "set_node_attr", node |-> v, node_attr |-> m],
                set_node_attr(Cur, v, m))

RemoveNode ==
    \E v \in Node :
        /\ Fits(remove_node(Cur, v))
        /\ Step([op |-> "remove_node", node |-> v],
                remove_node(Cur, v))

AddEdge ==
    \E a \in Node, b \in Node :
        /\ Fits(add_edge(Cur, a, b))
        /\ Step([op |-> "add_edge", node1 |-> a, node2 |-> b],
                add_edge(Cur, a, b))

HasNode ==
    \E v \in Node :
        /\ Fits(Ret(Cur, Ok("bool", has_node(Cur, v))))
        /\ Step([op |-> "has_node", node |-> v],
                Ret(Cur, Ok("bool", has_node(Cur, v))))

HasEdge ==
    \E a \in Node, b \in Node :
        /\ Fits(Ret(Cur, has_edge(Cur, a, b)))
        /\ Step([op |-> "has_edge", node1 |-> a, node2 |-> b],
                Ret(Cur, has_edge(Cur, a, b)))

Edges ==
    \E order \in IterOrders(adj_list) :
        /\ Fits(Ret(Cur, Ok("edges", edges(Cur, order))))
        /\ Step([op |-> "edges", order |-> order],
                Ret(Cur, Ok("edges", edges(Cur, order))))

Next ==
    \/ AddNode
    \/ AddNodesMultiple
    \/ SetNodeAttr
    \/ RemoveNode
    \/ AddEdge
    \/ HasNode
    \/ HasEdge
    \/ Edges

Spec == Init /\ [][Next]_vars

\* ------------------------------------------------------------- properties

\* Value v is an entry of graph g's node table.
Holds(g, v) == \E i \in DOMAIN g.nodes : g.nodes[i] = v

\* Handle h is an element of the neighbor list vec.
Contains(vec, h) == \E k \in DOMAIN vec : vec[k] = h

\* has_edge(a, b) answers true on the current graph.
EdgeSeen(a, b) ==
    LET r == has_edge(Cur, a, b) IN r.kind = "bool" /\ r.val

\* C2: adjacency is symmetric: B is in adj_list[A] iff A is in adj_list[B];
\* for present nodes a, b the answers has_edge(a,b) and has_edge(b,a) agree;
\* and right after add_edge(a,b), with a and b present, both are true.
C2_SymmetricAdjacency ==
    /\ \A A \in DOMAIN adj_list : \A k \in DOMAIN adj_list[A] :
           LET B == adj_list[A][k]
           IN  B \in DOMAIN adj_list /\ Contains(adj_list[B], A)
    /\ \A a \in Node, b \in Node :
           LET ab == has_edge(Cur, a, b)
               ba == has_edge(Cur, b, a)
           IN  (Holds(Cur, a) /\ Holds(Cur, b) /\ ab.kind = "bool" /\ ba.kind = "bool")
                   => (ab.val = ba.val)
    /\ (call.op = "add_edge" /\ Holds(Cur, call.node1) /\ Holds(Cur, call.node2))
           => (EdgeSeen(call.node1, call.node2) /\ EdgeSeen(call.node2, call.node1))

\* C3: after every operation the key set of adj_list is the set of handles
\* of the nodes in the node table.
C3_AdjKeysAreLiveHandles == DOMAIN adj_list = 0..(Len(nodes) - 1)

\* C5: remove_node of a present value returns Ok with that value and never
\* panics; the only failure of remove_node is NodeNotFound for an absent
\* value.
C5_RemovePresentNodeReturnsIt ==
    call.op = "remove_node" =>
        IF Holds(pre, call.node)
        THEN result.kind = "node" /\ result.val = call.node
        ELSE result.kind = "err" /\ result.val = "NodeNotFound"

\* C6: remove_node of a value that is not in the graph returns
\* Err(NodeNotFound) and leaves nodes, attr_list, adj_list and name as they
\* were.
C6_RemoveAbsentNodeIsNotFound ==
    (call.op = "remove_node" /\ ~Holds(pre, call.node)) =>
        /\ result.kind = "err"
        /\ result.val = "NodeNotFound"
        /\ Cur = pre

\* remove_node of an absent value was called on a graph with nodes and
\* attribute entries.
C6_Witness ==
    /\ call.op = "remove_node"
    /\ ~Holds(pre, call.node)
    /\ result.kind = "err"
    /\ Len(pre.nodes) = MaxNodes
    /\ DOMAIN pre.attr_list # {}

\* C7: add_node and add_nodes_multiple complete without a panic for every
\* value in every state.
C7_InsertionIsTotal ==
    call.op \in {"add_node", "add_nodes_multiple"} => result.kind # "panic"

\* C8: add_node of a value not yet present appends it to the node table and
\* creates an empty neighbor list and an empty attribute map under the
\* handle get_index returns for it.
C8_AddNodeCreatesEntriesUnderOwnHandle ==
    (call.op = "add_node" /\ ~Holds(pre, call.node)) =>
        /\ nodes = Append(pre.nodes, call.node)
        /\ LET h == get_index(Cur, call.node)
           IN  /\ h.kind = "index"
               /\ h.val \in DOMAIN adj_list
               /\ adj_list[h.val] = <<>>
               /\ h.val \in DOMAIN attr_list
               /\ attr_list[h.val] = EmptyMap

\* C9: add_node of a value already present returns the existing node and
\* changes nothing; no two entries of the node table hold equal values.
C9_IdempotentInsertionUniqueValues ==
    /\ (call.op = "add_node" /\ Holds(pre, call.node)) =>
           /\ result.kind = "node"
           /\ result.val = call.node
           /\ Cur = pre
           /\ Holds(Cur, call.node)
    /\ \A i \in DOMAIN nodes, j \in DOMAIN nodes : nodes[i] = nodes[j] => i = j

\* add_node was called with a value that was already in a full node table.
C9_Witness ==
    /\ call.op = "add_node"
    /\ Holds(pre, call.node)
    /\ Len(pre.nodes) = MaxNodes
    /\ result.kind = "node"

\* C10: add_edge never fails, and after add_edge(a,b) both endpoints are
\* present and has_edge(a,b) is true.
C10_AddEdgeNeverFails ==
    call.op = "add_edge" =>
        /\ result.kind # "panic"
        /\ Holds(Cur, call.node1)
        /\ Holds(Cur, call.node2)
        /\ EdgeSeen(call.node1, call.node2)

\* The query outcome r is the boolean b.
Answers(r, b) == r.kind = "bool" /\ r.val = b

\* C14: has_node and has_edge return a boolean and leave the state
\* unchanged in every state; has_edge(a,b) returns false when a or b is not
\* in the graph.
C14_QueriesNeverFail ==
    /\ call.op \in {"has_node", "has_edge"} => (result.kind = "bool" /\ Cur = pre)
    /\ (call.op = "has_edge" /\ ~(Holds(pre, call.node1) /\ Holds(pre, call.node2)))
           => Answers(result, FALSE)

\* C15: set_node_attr of a value that is not in the graph returns the
\* NodeNotFound failure, not a panic, and leaves the tables unchanged.
C15_SetAttrAbsentNodeIsNotFound ==
    (call.op = "set_node_attr" /\ ~Holds(pre, call.node)) =>
        /\ result.kind = "err"
        /\ result.val = "NodeNotFound"
        /\ Cur = pre

\* C16: set_node_attr(v, m) of a present node makes v's attribute entry
\* exactly m and leaves the key set of attr_list, the entries of the other
\* nodes, the node table and adj_list unchanged.
C16_SetAttrReplacesWholesale ==
    (call.op = "set_node_attr" /\ Holds(pre, call.node)) =>
        LET h == get_index(pre, call.node).val
        IN  /\ result.kind = "unit"
            /\ h \in DOMAIN attr_list
            /\ attr_list[h] = call.node_attr
            /\ DOMAIN attr_list = DOMAIN pre.attr_list
            /\ \A k \in DOMAIN attr_list \ {h} : attr_list[k] = pre.attr_list[k]
            /\ nodes = pre.nodes
            /\ adj_list = pre.adj_list

Maths == <<"Str", "Maths">>

Physics == <<"Str", "Physics">>

Chemistry == <<"Str", "Chemistry">>

\* C18: from the empty graph, inserting Maths, Physics, Chemistry, then
\* add_edge(Maths,Physics) and add_edge(Physics,Chemistry) all complete;
\* then has_edge(Maths,Physics) is true, has_edge(Maths,Chemistry) false
\* and edges() has 2 pairs; then remove_node(Physics) returns Ok, after
\* which Physics and its edges are gone and Maths and Chemistry remain,
\* not adjacent.
C18_ConcreteScenario ==
    (pre = new /\ call.op = "add_node" /\ call.node = Maths) =>
        LET s2 == add_node(Cur, Physics)
            s3 == add_node(s2.g, Chemistry)
            s4 == add_edge(s3.g, Maths, Physics)
            s5 == add_edge(s4.g, Physics, Chemistry)
            s6 == remove_node(s5.g, Physics)
        IN  /\ result.kind = "node"
            /\ s2.out.kind = "node"
            /\ s3.out.kind = "node"
            /\ s4.out.kind = "unit"
            /\ s5.out.kind = "unit"
            /\ Answers(has_edge(s5.g, Maths, Physics), TRUE)
            /\ Answers(has_edge(s5.g, Maths, Chemistry), FALSE)
            /\ \A o \in IterOrders(s5.g.adj_list) : Len(edges(s5.g, o)) = 2
            /\ s6.out.kind = "node"
            /\ s6.out.val = Physics
            /\ ~has_node(s6.g, Physics)
            /\ Answers(has_edge(s6.g, Maths, Physics), FALSE)
            /\ Answers(has_edge(s6.g, Physics, Chemistry), FALSE)
            /\ has_node(s6.g, Maths)
            /\ has_node(s6.g, Chemistry)
            /\ Answers(has_edge(s6.g, Maths, Chemistry), FALSE)

====
